---- MODULE Spec2Model ----
(***************************************************************************)
(* The windowed crawl-and-notify pipeline of arXiv_paper_notifier.         *)
(*                                                                         *)
(* State: the Redis keys (config, search_keywords, last_crawl_timestamp,   *)
(* last_crawl_paper_count, recent_papers), the Elasticsearch index         *)
(* arxiv_papers, the arXiv feed, the wall clock, and one record per cycle  *)
(* holding the position and the locals of the trigger task, of the         *)
(* crawl_papers task and of the send_notifications task of that cycle.     *)
(* Tasks of the same and of different cycles run on separate workers and   *)
(* interleave at their Redis, Elasticsearch and clock accesses.            *)
(*                                                                         *)
(* Time is counted in ticks; TicksPerSec ticks make a second, so that a    *)
(* datetime carries a sub-second part which strftime('%Y%m%d%H%M%S')       *)
(* drops.  The clock advances between two readings of it.  datetime is     *)
(* modelled without its year 1..9999 range.                                *)
(***************************************************************************)
EXTENDS Integers, Sequences, FiniteSets, TLC

VARIABLES
    now,                \* what datetime.utcnow() answered last, in ticks
    nticks,             \* number of readings that found the clock advanced
    feed,               \* the batches the arXiv feed can answer with
    r_config,           \* Redis key "config"
    r_keywords,         \* Redis set "search_keywords"
    r_ts,               \* Redis key "last_crawl_timestamp"
    r_count,            \* Redis key "last_crawl_paper_count"
    r_recent,           \* Redis key "recent_papers" (expires)
    index,              \* Elasticsearch index arxiv_papers: the documents
    first_written,      \* history: per id, the first document sent to the index
    cycles,             \* one record per triggered cycle
    found,              \* per keyword, the answers the index search can give
    kakao,              \* the answers the Kakao API can give to a post
    scorer,             \* what loading and calling the reranker model can do
    sent,               \* the messages posted to the Kakao API
    beat                \* app.conf.beat_schedule: the recurring trigger

time == <<now, nticks>>
crawl_state == <<r_ts, r_count>>
store == <<r_config, r_keywords, r_ts, r_count, r_recent>>
es == <<index, first_written>>
world == <<found, kakao, scorer>>
outside == <<found, kakao, scorer, sent, beat>>
vars == <<now, nticks, feed, r_config, r_keywords, r_ts, r_count, r_recent,
          index, first_written, cycles, found, kakao, scorer, sent, beat>>

----------------------------------------------------------------------------
(* Bounds of the model *)

MaxCycles == 2          \* triggers fired in one behaviour
MaxTicks == 1           \* clock readings that find the clock advanced
MaxBatch == 2           \* entries in one answer of the feed
TicksPerSec == 2        \* clock resolution below one second
MaxHits == 4            \* documents in one search answer given to the reranker
MaxDiff == 26           \* largest time_diff, in hours, either side of UTC

(* Program constants *)

SecPerHour == 3600          \* timedelta(hours=h)
DefaultCrawlPeriod == 24    \* config.get("crawl_period", 24)
Threshold == 500            \* score >= 0.5, in thousandths
DispatchTopK == 10          \* send_paper_kakao(..., top_k: int = 10)
HoursPerDay == 24           \* hour + 24 - config["time_diff"]

HourTicks == SecPerHour * TicksPerSec
StartTime == 48 * HourTicks
ClockSteps == {0, 1, HourTicks}

----------------------------------------------------------------------------
(* Timestamps *)

\* A value of the Redis key last_crawl_timestamp: a text in one of the two
\* formats the entry points write, or the key being absent.
NoTimestamp == [fmt |-> "absent", sec |-> 0, sub |-> 0]

\* datetime.strftime('%Y%m%d%H%M%S'): the text names whole seconds only.
StrfCompact(t) == [fmt |-> "compact", sec |-> t \div TicksPerSec, sub |-> 0]

\* datetime.isoformat(): the text keeps the sub-second part.
IsoFormat(t) == [fmt |-> "iso", sec |-> t \div TicksPerSec, sub |-> t % TicksPerSec]

\* datetime.strptime(s, "%Y%m%d%H%M%S"): raises (ok = FALSE) unless s is a
\* text in that format; strptime(None, ...) raises TypeError.
Strptime(s) ==
    IF s.fmt = "compact" THEN [ok |-> TRUE, val |-> s.sec * TicksPerSec]
    ELSE [ok |-> FALSE, val |-> 0]

\* end_datetime - timedelta(hours=h)
MinusHoursAsSeconds(t, h) == t - h * TicksPerSec

MinusHours(t, h) == t - h * HourTicks

Raised == [raised |-> TRUE, start |-> 0, end |-> 0]
Window(start, end) == [raised |-> FALSE, start |-> start, end |-> end]

\* crawl_and_store: the time window for crawling.  The clock is read when the
\* key is absent or its text does not parse.  config["crawl_period"] raises
\* KeyError when the key is missing: inside the try it is caught and raised
\* again by the except branch.
CrawlReadsClock(ts) == ~(ts.fmt # "absent" /\ Strptime(ts).ok)

CrawlWindowIgnoresStored(ts, config, clock) ==
    IF config.crawl_period = <<>> THEN Raised
    ELSE Window(MinusHours(clock, config.crawl_period[1]), clock)

CrawlWindow(ts, config, clock) ==
    IF config.crawl_period = <<>> THEN Raised
    ELSE IF ~CrawlReadsClock(ts)
    THEN Window(MinusHours(Strptime(ts).val, config.crawl_period[1]), Strptime(ts).val)
    ELSE Window(MinusHours(clock, config.crawl_period[1]), clock)

\* send_notification: the search window.  Every exception of the try, the
\* TypeError of strptime(None) included, leads to the clock being read.
SearchReadsClock(ts) == ~Strptime(ts).ok

ConfigGetCrawlPeriod(config) ==
    IF config.crawl_period = <<>> THEN DefaultCrawlPeriod ELSE config.crawl_period[1]

SearchWindowDefaults24(ts, config, clock) ==
    IF ~SearchReadsClock(ts)
    THEN Window(MinusHours(Strptime(ts).val, ConfigGetCrawlPeriod(config)),
                Strptime(ts).val)
    ELSE Window(MinusHours(clock, DefaultCrawlPeriod), clock)

SearchWindow(ts, config, clock) ==
    IF ~SearchReadsClock(ts)
    THEN Window(MinusHours(Strptime(ts).val, ConfigGetCrawlPeriod(config)),
                Strptime(ts).val)
    ELSE Window(MinusHours(clock, ConfigGetCrawlPeriod(config)), clock)

----------------------------------------------------------------------------
(* Configuration and keywords *)

\* config.json: the keys the pipeline reads.  crawl_period is <<p>>, or <<>>
\* when the key is missing; reranker is <<model>>, or <<>> when the key is
\* missing; schedule "HH:MM" is given as its hour and its minute.  present
\* tells the key "config" holds the text: redis_client.get answers None when
\* it does not.
Config(p, kws) ==
    [present |-> TRUE, crawl_period |-> <<p>>, keywords |-> kws, messenger |-> "kakao",
     template |-> "default_text", reranker |-> <<>>,
     hour |-> 9, minute |-> 0, time_diff |-> 9]

Configs ==
    { Config(1, <<"llm", "retrieval">>),
      [Config(0 - 1, <<>>) EXCEPT !.reranker = <<"cross-encoder">>] }

NoConfig == [Config(0, <<>>) EXCEPT !.crawl_period = <<>>]

\* The key "config" was never stored.
AbsentConfig == [NoConfig EXCEPT !.present = FALSE]

Range(s) == { s[i] : i \in DOMAIN s }

\* list(a set): the members in some order.
Orderings(S) == { s \in [1..Cardinality(S) -> S] : Range(s) = S }

\* get_search_keywords: the lists it may return.
GetSearchKeywordsMerged(stored, config) ==
    Orderings(stored \cup Range(config.keywords))

GetSearchKeywords(stored, config) ==
    IF stored # {} THEN Orderings(stored)
    ELSE IF config.keywords # <<>> THEN {config.keywords}
    ELSE {<<>>}

----------------------------------------------------------------------------
(* Feed entries, documents and the index *)

\* Feed entries: identifier and title (the other fields are copied alike).
\* A title is given as its sequence of characters.
Ids == {"a", "b"}
Entries ==
    { [id |-> "a", title |-> <<"x">>],
      [id |-> "a", title |-> <<"y", "\n">>],
      [id |-> "b", title |-> <<"x">>] }

\* The entries one category query may return.
FeedBatches == UNION { [1..n -> Entries] : n \in 0..MaxBatch }

\* fetch_arxiv_papers queries the categories one after the other.
Categories == <<"cs.CL", "cs.IR", "cs.AI">>

\* What feedparser.parse(query) can end in: the entries of the feed; a
\* failure it keeps to itself (bozo), with no entries; an exception.
Parsed(entries) == [kind |-> "entries", entries |-> entries]
Bozo == [kind |-> "bozo", entries |-> <<>>]
ParseRaises == [kind |-> "raise", entries |-> <<>>]

\* The first category whose query ended in one of kinds, 0 when none did.
FirstOf(answers, kinds) ==
    IF \A i \in DOMAIN answers : answers[i].kind \notin kinds THEN 0
    ELSE CHOOSE i \in DOMAIN answers :
            /\ answers[i].kind \in kinds
            /\ \A h \in 1..(i - 1) : answers[h].kind \notin kinds

\* The loop has no try: the first exception ends it.
FetchRaises(answers) == FirstOf(answers, {"raise"}) # 0

\* fetch_arxiv_papers: all_papers, the entries of the categories one after
\* the other, not deduplicated.
RECURSIVE AllPapers(_)
AllPapers(answers) ==
    IF answers = <<>> THEN <<>>
    ELSE Head(answers).entries \o AllPapers(Tail(answers))

\* The feed of a category fails after the first category has answered.
FailingFeeds ==
    { [[i \in DOMAIN Categories |-> Parsed(<<>>)] EXCEPT ![1] = Parsed(<<e>>), ![2] = f] :
         e \in Entries, f \in {Bozo, ParseRaises} }

\* One answer per category, MaxBatch entries at most in all.
FeedAnswers ==
    { a \in [DOMAIN Categories -> {Parsed(b) : b \in FeedBatches}] :
         Len(AllPapers(a)) <= MaxBatch }

\* A feed that answers with nothing or with one entry, or fails on its
\* second category.
NoEntries == [i \in DOMAIN Categories |-> Parsed(<<>>)]
SmallFeed ==
    { NoEntries,
      [NoEntries EXCEPT ![1] = Parsed(<<[id |-> "a", title |-> <<"x">>]>>)],
      [NoEntries EXCEPT ![2] = ParseRaises] }

\* str.replace("\n", " ")
ReplaceNewline(s) == [i \in DOMAIN s |-> IF s[i] = "\n" THEN " " ELSE s[i]]

\* store_papers_to_elasticsearch: the document built from an entry.
BuildDoc(paper) == [id |-> paper.id, title |-> ReplaceNewline(paper.title)]

NoFirst == [i \in Ids |-> <<>>]

HasId(idx, id) == \E d \in idx : d.id = id

\* es_client.index(index="arxiv_papers", id=doc["id"], document=doc,
\* op_type="create"): ConflictError when the id exists, else the document is
\* added.
EsIndexOverwrite(idx, doc) ==
    [conflict |-> FALSE, index |-> {d \in idx : d.id # doc.id} \cup {doc}]

EsIndexCreate(idx, doc) ==
    IF HasId(idx, doc.id) THEN [conflict |-> TRUE, index |-> idx]
    ELSE [conflict |-> FALSE, index |-> idx \cup {doc}]

\* store_papers_to_elasticsearch: the try around es_client.index; the
\* ConflictError is caught and logged.
TryIndexUncaught(idx, doc) ==
    [raised |-> EsIndexCreate(idx, doc).conflict, index |-> EsIndexCreate(idx, doc).index]

TryIndex(idx, doc) ==
    [raised |-> FALSE, index |-> EsIndexCreate(idx, doc).index]

\* store_papers_to_elasticsearch run alone on a whole batch.
RECURSIVE StorePapers(_, _)
StorePapers(idx, papers) ==
    IF papers = <<>> THEN idx
    ELSE StorePapers(TryIndex(idx, BuildDoc(Head(papers))).index, Tail(papers))

----------------------------------------------------------------------------
(* Search answers, the reranker and the Kakao payloads *)

Keywords == {"llm", "retrieval", "rag"}

\* A document of a search answer: its id (title and link follow the id) and
\* raw, the sigmoid of the logit the reranker gives it, in 1/10000.
Hit(id, raw) == [id |-> id, raw |-> raw]

\* es_client.search: the hits, or an error raised by the transport.
Answer(hits) == [raised |-> FALSE, hits |-> hits]
SearchRaises == [raised |-> TRUE, hits |-> <<>>]

\* round(x, 3) of a score given in 1/10000, in thousandths: to the nearest,
\* a tie to the even neighbour.
Round3(raw) ==
    LET q == raw \div 10
        r == raw % 10
    IN  IF r > 5 \/ (r = 5 /\ q % 2 = 1) THEN q + 1 ELSE q

\* rerank_papers: if score >= 0.5
ScoreKeptAbove(score) == score > Threshold

ScoreKept(score) == score >= Threshold

\* paper["reranker_score"] = score; without a reranker the key is missing.
Scored(paper) == [id |-> paper.id, raw |-> paper.raw, score |-> <<Round3(paper.raw)>>]
Unscored(paper) == [id |-> paper.id, raw |-> paper.raw, score |-> <<>>]

\* The loop that fills filtered_papers.
RECURSIVE FilteredPapers(_)
FilteredPapers(papers) ==
    IF papers = <<>> THEN <<>>
    ELSE IF ScoreKept(Round3(Head(papers).raw))
         THEN <<Scored(Head(papers))>> \o FilteredPapers(Tail(papers))
         ELSE FilteredPapers(Tail(papers))

\* sorted(..., key=score, reverse=True) keeps the order of equal keys: an
\* element goes behind every element whose score is not below its own.
InsertBeforeTies(sorted, p) ==
    LET k == Cardinality({i \in DOMAIN sorted : sorted[i].score[1] > p.score[1]})
    IN  SubSeq(sorted, 1, k) \o <<p>> \o SubSeq(sorted, k + 1, Len(sorted))

InsertDesc(sorted, p) ==
    LET k == Cardinality({i \in DOMAIN sorted : sorted[i].score[1] >= p.score[1]})
    IN  SubSeq(sorted, 1, k) \o <<p>> \o SubSeq(sorted, k + 1, Len(sorted))

RECURSIVE SortedDesc(_)
SortedDesc(s) ==
    IF s = <<>> THEN <<>>
    ELSE InsertDesc(SortedDesc(SubSeq(s, 1, Len(s) - 1)), s[Len(s)])

\* rerank_papers, when the model answers.
RerankPapers(papers) == SortedDesc(FilteredPapers(papers))

\* ranked_papers = papers, when no reranker is configured.
PassThrough(papers) == [i \in DOMAIN papers |-> Unscored(papers[i])]

\* papers[:top_k]
Take(s, n) == SubSeq(s, 1, IF Len(s) < n THEN Len(s) ELSE n)

\* round(paper.get("reranker_score", 0), 4)
DisplayScore(p) == IF p.score = <<>> THEN 0 ELSE p.score[1]

\* The payloads posted to the Kakao API: the endpoint, the keys of the form
\* data, the object_type inside template_object, the text (keyword, whether
\* it is the 'No new updates' notice, the listed entries) or the template
\* arguments (SEARCH_QUERY, N_PAPERS, TITLE_i and LINK_i as listed).
TextPayload(keyword, notice, entries) ==
    [url |-> "v2/api/talk/memo/default/send",
     keys |-> {"template_object"},
     object_type |-> "text",
     keyword |-> keyword,
     notice |-> notice,
     listed |-> entries,
     n_papers |-> <<>>]

TemplatePayload(keyword, n, entries) ==
    [url |-> "v2/api/talk/memo/send",
     keys |-> {"template_id", "template_args"},
     object_type |-> "",
     keyword |-> keyword,
     notice |-> FALSE,
     listed |-> entries,
     n_papers |-> <<n>>]

\* One entry of a message: rank, displayed score and the title.
Entry(rank, p) == [rank |-> rank, score |-> DisplayScore(p), title |-> p.id]

ListedEntries(papers) == [i \in DOMAIN papers |-> Entry(i, papers[i])]

\* KakaoMessage.format_message; N_PAPERS is str(len(papers)).
FormatMessage(template, keyword, papers, top_k) ==
    IF template = "default_text"
    THEN TextPayload(keyword, FALSE, ListedEntries(Take(papers, top_k)))
    ELSE TemplatePayload(keyword, Len(papers), ListedEntries(Take(papers, top_k)))

\* KakaoMessage.send_paper_kakao: the payload it posts.
SendPaperKakao(template, keyword, papers, top_k) ==
    IF papers # <<>> THEN FormatMessage(template, keyword, papers, top_k)
    ELSE TextPayload(keyword, TRUE, <<>>)

\* What requests.post can end in: a response with status 200, a response
\* with another status and a JSON body, one with another status and a body
\* that is not JSON, an exception, or no return at all (no timeout is given).
PostOutcomes == {"200", "400", "502", "raise", "hang"}

\* response.json() raises on a body that is not JSON.
JsonRaises(outcome) == outcome = "502"

\* What the reranker can do: answer, fail to load, fail while scoring.
ScorerOutcomes == {"ok", "load_fails", "score_fails"}

\* The recurring trigger: hour - time_diff, plus 24 when that is negative.
NewHour(hour, time_diff) ==
    IF hour - time_diff >= 0 THEN hour - time_diff
    ELSE hour + HoursPerDay - time_diff

\* crontab(minute=minute, hour=new_hour) raises ValueError outside 0..23.
NoBeat == [set |-> FALSE, raised |-> FALSE, hour |-> 0, minute |-> 0]
Crontab(minute, hour) ==
    [set |-> hour \in 0..(HoursPerDay - 1), raised |-> hour \notin 0..(HoursPerDay - 1),
     hour |-> hour, minute |-> minute]

----------------------------------------------------------------------------
(* Cycles: a trigger task, its crawl_papers task, its send_notifications task *)

CrawlerKinds == {"scheduled_crawl", "run_now"}          \* tasks_crawler.py
LegacyKinds == {"scheduled_workflow", "tasks_run_now"}  \* tasks.py

NoWindow == Window(0, 0)

\* A task that has not been enqueued.
\* cat: the category whose fetch failed, 0 when none did.
NoCrawl ==
    [pc |-> "none", err |-> "", config |-> NoConfig, ts |-> NoTimestamp,
     win |-> NoWindow, cat |-> 0, papers |-> <<>>, i |-> 0, count |-> 0]

\* k: searches issued; hits: the notifications, one list per keyword searched;
\* loaded: the reranker is loaded; j: keywords the dispatch loop is through
\* with.
NoNotif ==
    [pc |-> "none", err |-> "", config |-> NoConfig, keywords |-> <<>>,
     ts |-> NoTimestamp, win |-> NoWindow, k |-> 0, hits |-> <<>>,
     loaded |-> FALSE, j |-> 0]

Queued(task) == [task EXCEPT !.pc = "queued"]

CycleIds == 1..Len(cycles)

\* History kept with a cycle: before, the value of last_crawl_timestamp when
\* the cycle was triggered; alone, whether the trigger and the crawl_papers
\* task of every earlier cycle had ended by then.
NewCycle(kind, pc, t, cfg) ==
    [kind |-> kind, pc |-> pc, t |-> t, cfg |-> cfg, i |-> 0,
     before |-> r_ts,
     alone |-> \A c \in CycleIds : /\ cycles[c].pc = "done"
                                   /\ cycles[c].crawl.pc \in {"done", "failed"},
     crawl |-> NoCrawl, notif |-> NoNotif]

\* datetime.utcnow(): d ticks have gone by since the clock was read last.
utcnow(d) ==
    /\ d # 0 => nticks < MaxTicks
    /\ now' = now + d
    /\ nticks' = IF d = 0 THEN nticks ELSE nticks + 1

\* Redis drops recent_papers when its 600 seconds are over.
ExpireRecent ==
    /\ r_recent # <<>>
    /\ r_recent' = <<>>
    /\ UNCHANGED <<outside, time, feed, r_config, r_keywords, crawl_state, es, cycles>>

----------------------------------------------------------------------------
(* tasks_crawler.py: scheduled_crawl and run_now *)

\* scheduled_crawl starts: store_last_execution_time reads the clock.
scheduled_crawl(d) ==
    /\ Len(cycles) < MaxCycles
    /\ utcnow(d)
    /\ cycles' = Append(cycles, NewCycle("scheduled_crawl", "set", now', NoConfig))
    /\ UNCHANGED <<outside, feed, store, es>>

\* store_last_execution_time writes the key; the caller then enqueues
\* crawl_papers on the crawler queue and send_notifications on the notifier
\* queue.
store_last_execution_time(c) ==
    /\ cycles[c].kind \in CrawlerKinds
    /\ cycles[c].pc = "set"
    /\ r_ts' = StrfCompact(cycles[c].t)
    /\ cycles' = [cycles EXCEPT ![c].pc = "done",
                                ![c].crawl = Queued(NoCrawl),
                                ![c].notif = Queued(NoNotif)]
    /\ UNCHANGED <<outside, time, feed, r_config, r_keywords, r_count, r_recent, es>>

\* run_now starts: load_config reads config.json, which holds cfg by now,
\* and store_config_in_redis stores it.
run_now(cfg) ==
    /\ Len(cycles) < MaxCycles
    /\ r_config' = cfg
    /\ cycles' = Append(cycles, NewCycle("run_now", "kw_delete", 0, cfg))
    /\ UNCHANGED <<outside, time, feed, r_keywords, crawl_state, r_recent, es>>

\* store_keywords_in_redis: delete the set; with no keyword to add,
\* store_last_execution_time is next and reads the clock.
store_keywords_delete(c, d) ==
    /\ cycles[c].kind = "run_now"
    /\ cycles[c].pc = "kw_delete"
    /\ r_keywords' = {}
    /\ IF cycles[c].cfg.keywords = <<>>
       THEN /\ utcnow(d)
            /\ cycles' = [cycles EXCEPT ![c].pc = "set", ![c].t = now']
       ELSE /\ d = 0
            /\ cycles' = [cycles EXCEPT ![c].pc = "kw_add", ![c].i = 1]
            /\ UNCHANGED time
    /\ UNCHANGED <<outside, feed, r_config, crawl_state, r_recent, es>>

\* store_keywords_in_redis: one sadd; after the last one
\* store_last_execution_time is next and reads the clock.
store_keywords_sadd(c, d) ==
    /\ cycles[c].kind = "run_now"
    /\ cycles[c].pc = "kw_add"
    /\ r_keywords' = r_keywords \cup {cycles[c].cfg.keywords[cycles[c].i]}
    /\ IF cycles[c].i = Len(cycles[c].cfg.keywords)
       THEN /\ utcnow(d)
            /\ cycles' = [cycles EXCEPT ![c].pc = "set", ![c].t = now']
       ELSE /\ d = 0
            /\ cycles' = [cycles EXCEPT ![c].i = @ + 1]
            /\ UNCHANGED time
    /\ UNCHANGED <<outside, feed, r_config, crawl_state, r_recent, es>>

----------------------------------------------------------------------------
(* tasks.py: scheduled_workflow, run_now, crawl_papers *)

\* scheduled_workflow: chain(crawl_papers.s(), send_notifications.s()).
scheduled_workflow ==
    /\ Len(cycles) < MaxCycles
    /\ cycles' = Append(cycles,
                   [NewCycle("scheduled_workflow", "done", 0, NoConfig)
                       EXCEPT !.crawl = Queued(NoCrawl)])
    /\ UNCHANGED <<outside, time, feed, store, es>>

\* run_now of tasks.py starts: its store_last_execution_time reads the clock.
tasks_run_now(d) ==
    /\ Len(cycles) < MaxCycles
    /\ utcnow(d)
    /\ cycles' = Append(cycles, NewCycle("tasks_run_now", "set", now', NoConfig))
    /\ UNCHANGED <<outside, feed, store, es>>

\* store_last_execution_time of tasks.py writes the isoformat text; run_now
\* then starts the chain.
tasks_store_last_execution_time(c) ==
    /\ cycles[c].kind = "tasks_run_now"
    /\ cycles[c].pc = "set"
    /\ r_ts' = IsoFormat(cycles[c].t)
    /\ cycles' = [cycles EXCEPT ![c].pc = "done", ![c].crawl = Queued(NoCrawl)]
    /\ UNCHANGED <<outside, time, feed, r_config, r_keywords, r_count, r_recent, es>>

\* crawl_papers of tasks.py calls crawl_and_store(config); crawl_and_store
\* takes no argument, so the call raises TypeError, the task fails and the
\* chain never enqueues send_notifications.
tasks_crawl_papers(c) ==
    /\ cycles[c].kind \in LegacyKinds
    /\ cycles[c].crawl.pc = "queued"
    /\ cycles' = [cycles EXCEPT ![c].crawl.pc = "failed",
                                ![c].crawl.err = "TypeError"]
    /\ UNCHANGED <<outside, time, feed, store, es>>

----------------------------------------------------------------------------
(* crawler.py: crawl_and_store, run by crawl_papers of tasks_crawler.py *)

\* json.loads(redis_client.get("config")); json.loads(None) raises
\* TypeError.
crawl_load_config(c) ==
    /\ cycles[c].kind \in CrawlerKinds
    /\ cycles[c].crawl.pc = "queued"
    /\ cycles' = IF r_config.present
                 THEN [cycles EXCEPT ![c].crawl.pc = "window",
                                     ![c].crawl.config = r_config]
                 ELSE [cycles EXCEPT ![c].crawl.pc = "failed",
                                     ![c].crawl.err = "TypeError"]
    /\ UNCHANGED <<outside, time, feed, store, es>>

\* Read last_crawl_timestamp and determine the window.  Without a
\* crawl_period the KeyError drops whatever the clock answered, and that
\* reading is left out.
crawl_window(c, d) ==
    /\ cycles[c].crawl.pc = "window"
    /\ IF CrawlReadsClock(r_ts) /\ cycles[c].crawl.config.crawl_period # <<>>
       THEN utcnow(d)
       ELSE d = 0 /\ UNCHANGED time
    /\ LET win == CrawlWindow(r_ts, cycles[c].crawl.config, now')
       IN  cycles' = [cycles EXCEPT
              ![c].crawl.pc = IF win.raised THEN "failed" ELSE "fetch",
              ![c].crawl.err = IF win.raised THEN "KeyError" ELSE "",
              ![c].crawl.ts = r_ts,
              ![c].crawl.win = win]
    /\ UNCHANGED <<outside, feed, store, es>>

\* fetch_arxiv_papers returns the entries of all the categories.
crawl_fetch(c) ==
    /\ cycles[c].crawl.pc = "fetch"
    /\ \E answers \in feed :
          /\ ~FetchRaises(answers)
          /\ LET batch == AllPapers(answers)
             IN  cycles' = [cycles EXCEPT
                    ![c].crawl.pc = IF batch = <<>> THEN "count" ELSE "store",
                    ![c].crawl.cat = FirstOf(answers, {"bozo"}),
                    ![c].crawl.papers = batch,
                    ![c].crawl.i = IF batch = <<>> THEN 0 ELSE 1]
    /\ UNCHANGED <<outside, time, feed, store, es>>

\* feedparser.parse raises for a category: nothing catches it, the entries
\* fetched so far are lost and crawl_and_store does not complete.
crawl_fetch_fails(c) ==
    /\ cycles[c].crawl.pc = "fetch"
    /\ \E answers \in feed :
          /\ FetchRaises(answers)
          /\ cycles' = [cycles EXCEPT ![c].crawl.pc = "failed",
                                      ![c].crawl.err = "FetchError",
                                      ![c].crawl.cat = FirstOf(answers, {"raise"})]
    /\ UNCHANGED <<outside, time, feed, store, es>>

\* store_papers_to_elasticsearch: one pass of the loop.  count is
\* incremented after the try, whether or not the document was new.
crawl_store(c) ==
    /\ cycles[c].crawl.pc = "store"
    /\ LET doc == BuildDoc(cycles[c].crawl.papers[cycles[c].crawl.i])
           res == TryIndex(index, doc)
       IN  /\ index' = res.index
           /\ first_written' = IF first_written[doc.id] = <<>>
                               THEN [first_written EXCEPT ![doc.id] = <<doc>>]
                               ELSE first_written
           /\ cycles' = IF res.raised
                 THEN [cycles EXCEPT ![c].crawl.pc = "failed",
                                     ![c].crawl.err = "ConflictError"]
                 ELSE [cycles EXCEPT
                         ![c].crawl.pc = IF cycles[c].crawl.i = Len(cycles[c].crawl.papers)
                                         THEN "count" ELSE "store",
                         ![c].crawl.i = @ + 1,
                         ![c].crawl.count = @ + 1]
    /\ UNCHANGED <<outside, time, feed, store>>

\* An ingestion that advances the timestamp to the end of its window.
crawl_count_advances(c) ==
    /\ cycles[c].crawl.pc = "count"
    /\ r_recent' = IF cycles[c].crawl.papers # <<>> THEN cycles[c].crawl.papers
                   ELSE r_recent
    /\ r_count' = cycles[c].crawl.count
    /\ r_ts' = StrfCompact(cycles[c].crawl.win.end + TicksPerSec)
    /\ cycles' = [cycles EXCEPT ![c].crawl.pc = "done"]
    /\ UNCHANGED <<outside, time, feed, r_config, r_keywords, es>>

\* setex recent_papers when there are papers, then set last_crawl_paper_count.
crawl_count(c) ==
    /\ cycles[c].crawl.pc = "count"
    /\ r_recent' = IF cycles[c].crawl.papers # <<>> THEN cycles[c].crawl.papers
                   ELSE r_recent
    /\ r_count' = cycles[c].crawl.count
    /\ cycles' = [cycles EXCEPT ![c].crawl.pc = "done"]
    /\ UNCHANGED <<outside, time, feed, r_config, r_keywords, r_ts, es>>

----------------------------------------------------------------------------
(* notifier.py: send_notification, run by send_notifications *)

\* json.loads(redis_client.get("config")), then the messenger: another
\* messenger than kakao is not supported and send_notification returns;
\* KakaoMessage(config) refreshes the access token with a post and reads
\* the answer with response.json().
notif_load_config(c) ==
    /\ cycles[c].notif.pc = "queued"
    /\ \E o \in kakao :
          cycles' = [cycles EXCEPT
             ![c].notif.config = IF r_config.present THEN r_config ELSE @,
             ![c].notif.pc =
                 IF ~r_config.present THEN "failed"
                 ELSE IF r_config.messenger # "kakao" THEN "done"
                 ELSE IF o = "hang" THEN "refreshing"
                 ELSE IF o = "raise" \/ JsonRaises(o) THEN "failed"
                 ELSE "keywords",
             ![c].notif.err =
                 IF ~r_config.present THEN "TypeError"
                 ELSE IF r_config.messenger # "kakao" THEN ""
                 ELSE IF o = "raise" THEN "ConnectionError"
                 ELSE IF JsonRaises(o) THEN "JSONDecodeError"
                 ELSE ""]
    /\ UNCHANGED <<outside, time, feed, store, es>>

\* A reader of the keyword set that empties it.
notif_keywords_consumes(c) ==
    /\ cycles[c].notif.pc = "keywords"
    /\ \E kws \in GetSearchKeywords(r_keywords, cycles[c].notif.config) :
          cycles' = [cycles EXCEPT ![c].notif.pc = "window",
                                   ![c].notif.keywords = kws]
    /\ r_keywords' = {}
    /\ UNCHANGED <<outside, time, feed, r_config, crawl_state, r_recent, es>>

\* get_search_keywords
notif_keywords(c) ==
    /\ cycles[c].notif.pc = "keywords"
    /\ \E kws \in GetSearchKeywords(r_keywords, cycles[c].notif.config) :
          cycles' = [cycles EXCEPT ![c].notif.pc = "window",
                                   ![c].notif.keywords = kws]
    /\ UNCHANGED <<outside, time, feed, store, es>>

\* Read last_crawl_timestamp and calculate the search window; search_papers
\* returns at once when there is no keyword.
notif_window(c, d) ==
    /\ cycles[c].notif.pc = "window"
    /\ IF SearchReadsClock(r_ts) THEN utcnow(d) ELSE d = 0 /\ UNCHANGED time
    /\ LET win == SearchWindow(r_ts, cycles[c].notif.config, now')
       IN  cycles' = [cycles EXCEPT
              ![c].notif.pc = IF win.raised THEN "failed"
                              ELSE IF cycles[c].notif.keywords = <<>> THEN "dispatch"
                              ELSE "search",
              ![c].notif.ts = r_ts,
              ![c].notif.win = win]
    /\ UNCHANGED <<outside, feed, store, es>>

\* search_papers: one es_client.search, for the next keyword.  An error of
\* the search is not caught.
notif_search(c) ==
    /\ cycles[c].notif.pc = "search"
    /\ \E answer \in found[cycles[c].notif.keywords[cycles[c].notif.k + 1]] :
          cycles' = [cycles EXCEPT
             ![c].notif.k = @ + 1,
             ![c].notif.hits = IF answer.raised THEN @ ELSE Append(@, answer.hits),
             ![c].notif.err = IF answer.raised THEN "TransportError" ELSE "",
             ![c].notif.pc = IF answer.raised THEN "failed"
                             ELSE IF cycles[c].notif.k + 1 = Len(cycles[c].notif.keywords)
                             THEN "dispatch" ELSE "search"]
    /\ UNCHANGED <<outside, time, feed, store, es>>

\* AutoTokenizer.from_pretrained and
\* AutoModelForSequenceClassification.from_pretrained, when a reranker is
\* configured; an error of the loading is not caught.
notif_load_reranker(c) ==
    /\ cycles[c].notif.pc = "dispatch"
    /\ cycles[c].notif.config.reranker # <<>>
    /\ ~cycles[c].notif.loaded
    /\ \E o \in scorer :
          cycles' = [cycles EXCEPT
             ![c].notif.loaded = (o # "load_fails"),
             ![c].notif.pc = IF o = "load_fails" THEN "failed" ELSE "dispatch",
             ![c].notif.err = IF o = "load_fails" THEN "OSError" ELSE ""]
    /\ UNCHANGED <<outside, time, feed, store, es>>

\* What the task is left with by one pass of the loop over the
\* notifications: its position, the exception that ended it, the keywords it
\* is through with and the message it has posted.
Pass(pc, err, j, msgs) == [pc |-> pc, err |-> err, j |-> j, msgs |-> msgs]

\* The message of keyword j of cycle c: what was ranked, what was posted and
\* how the post ended.
Message(c, j, keyword, ranked, payload, response) ==
    [cycle |-> c, j |-> j, keyword |-> keyword, ranked |-> ranked,
     payload |-> payload, response |-> response]

\* A loop that also skips the keyword whose hits the reranker has all
\* dropped.
DispatchPassesSkipsDropped(c, n) ==
    LET j == n.j + 1
        keyword == n.keywords[j]
        papers == n.hits[j]
        after == IF j = Len(n.hits) THEN "done" ELSE "dispatch"
        ranked == IF n.config.reranker = <<>> THEN PassThrough(papers)
                  ELSE RerankPapers(papers)
        payload == SendPaperKakao(n.config.template, keyword, ranked, DispatchTopK)
    IN  IF papers = <<>> \/ ranked = <<>> THEN {Pass(after, "", j, {})}
        ELSE { Pass(after, "", j, {Message(c, j, keyword, ranked, payload, o)}) :
                  o \in kakao \cap {"200", "400"} }

\* One pass of the loop, for keyword j + 1 of the task n: no papers,
\* continue; else rerank (or not), send_paper_kakao, and look at the
\* response: status 200 is logged, another status is logged with
\* response.json().  Nothing in the loop catches an exception.
DispatchPasses(c, n) ==
    LET j == n.j + 1
        keyword == n.keywords[j]
        papers == n.hits[j]
        after == IF j = Len(n.hits) THEN "done" ELSE "dispatch"
        scorings == IF n.config.reranker = <<>> THEN {"ok"}
                    ELSE scorer \ {"load_fails"}
        ranked == IF n.config.reranker = <<>> THEN PassThrough(papers)
                  ELSE RerankPapers(papers)
        payload == SendPaperKakao(n.config.template, keyword, ranked, DispatchTopK)
        posted(o) == {Message(c, j, keyword, ranked, payload, o)}
    IN  IF papers = <<>> THEN {Pass(after, "", j, {})}
        ELSE { Pass("failed", "RuntimeError", n.j, {}) : so \in scorings \ {"ok"} }
             \cup
             { IF o = "raise" THEN Pass("failed", "ConnectionError", n.j, {})
               ELSE IF o = "hang" THEN Pass("posting", "", n.j, {})
               ELSE IF o = "200" THEN Pass(after, "", j, posted(o))
               ELSE IF JsonRaises(o) THEN Pass("failed", "JSONDecodeError", n.j, posted(o))
               ELSE Pass(after, "", j, posted(o)) :
                  o \in IF "ok" \in scorings THEN kakao ELSE {} }

\* The loop over the notifications, one pass; with no notification
\* send_notification returns.
notif_dispatch(c) ==
    /\ cycles[c].notif.pc = "dispatch"
    /\ cycles[c].notif.config.reranker # <<>> => cycles[c].notif.loaded
    /\ IF cycles[c].notif.hits = <<>>
       THEN /\ cycles' = [cycles EXCEPT ![c].notif.pc = "done"]
            /\ UNCHANGED sent
       ELSE \E pass \in DispatchPasses(c, cycles[c].notif) :
               /\ cycles' = [cycles EXCEPT ![c].notif.pc = pass.pc,
                                           ![c].notif.err = pass.err,
                                           ![c].notif.j = pass.j]
               /\ sent' = sent \cup pass.msgs
    /\ UNCHANGED <<world, beat, time, feed, store, es>>

\* tasks_scheduler.py: schedule_workflow registers the recurring trigger.
schedule_workflow ==
    /\ ~beat.set
    /\ ~beat.raised
    /\ beat' = Crontab(r_config.minute, NewHour(r_config.hour, r_config.time_diff))
    /\ UNCHANGED <<world, sent, time, feed, store, es, cycles>>

----------------------------------------------------------------------------
(* The pipeline: every entry point, both workers *)

\* An index that answers a search for llm with one document and any other
\* search with none.
SmallFound ==
    [kw \in Keywords |-> IF kw = "llm" THEN {Answer(<<Hit("A", 9000)>>)}
                         ELSE {Answer(<<>>)}]

\* A messenger, a reranker and an index that do what they are asked for.
Healthy ==
    /\ found = SmallFound
    /\ kakao = {"200"}
    /\ scorer = {"ok"}
    /\ sent = {}
    /\ beat = Crontab(r_config.minute, NewHour(r_config.hour, r_config.time_diff))

\* After the scheduler's initialization block: config.json is stored under
\* "config", its keywords under "search_keywords", the recurring trigger is
\* registered; nothing has run yet.
Init ==
    /\ now = StartTime
    /\ nticks = 0
    /\ feed = SmallFeed
    /\ r_config \in Configs
    /\ r_keywords = Range(r_config.keywords)
    /\ r_ts = NoTimestamp
    /\ r_count = 0
    /\ r_recent = <<>>
    /\ index = {}
    /\ first_written = NoFirst
    /\ cycles = <<>>
    /\ found = SmallFound
    /\ kakao = {"200"}
    /\ scorer = {"ok"}
    /\ sent = {}
    /\ beat = Crontab(r_config.minute, NewHour(r_config.hour, r_config.time_diff))

\* The entry points start.
TriggerStarts ==
    \/ \E d \in ClockSteps : scheduled_crawl(d)
    \/ \E cfg \in Configs : run_now(cfg)
    \/ scheduled_workflow
    \/ \E d \in ClockSteps : tasks_run_now(d)

\* The entry points go on.
TriggerSteps ==
    \E c \in CycleIds :
       \/ store_last_execution_time(c)
       \/ \E d \in ClockSteps : store_keywords_delete(c, d)
       \/ \E d \in ClockSteps : store_keywords_sadd(c, d)
       \/ tasks_store_last_execution_time(c)

Crawler ==
    \E c \in CycleIds :
       \/ tasks_crawl_papers(c)
       \/ crawl_load_config(c)
       \/ \E d \in ClockSteps : crawl_window(c, d)
       \/ crawl_fetch(c)
       \/ crawl_fetch_fails(c)
       \/ crawl_store(c)
       \/ crawl_count(c)

Notifier ==
    \E c \in CycleIds :
       \/ notif_load_config(c)
       \/ notif_keywords(c)
       \/ \E d \in ClockSteps : notif_window(c, d)
       \/ notif_search(c)
       \/ notif_load_reranker(c)
       \/ notif_dispatch(c)

Next ==
    \/ TriggerStarts
    \/ TriggerSteps
    \/ Crawler
    \/ Notifier
    \/ ExpireRecent

Spec == Init /\ [][Next]_vars

\* The entry points and the crawler worker; send_notifications tasks wait in
\* the notifier queue.  The notifier's steps change nothing but the locals
\* of its own task.
NextCrawl ==
    \/ TriggerStarts
    \/ TriggerSteps
    \/ Crawler

SpecCrawl == Init /\ [][NextCrawl]_vars

\* The same, with every trigger fired after the trigger and the crawl_papers
\* task of the cycles before it have ended: cycles that follow one another.
Quiet ==
    \A c \in CycleIds : /\ cycles[c].pc = "done"
                         /\ cycles[c].crawl.pc \in {"done", "failed"}

NextSequential ==
    \/ Quiet /\ TriggerStarts
    \/ TriggerSteps
    \/ Crawler

SpecSequential == Init /\ [][NextSequential]_vars

\* Cycles that follow one another, with both workers: the notifier worker
\* takes the send_notifications task of a cycle while, or before, the
\* crawler worker runs the crawl_papers task of that cycle.
NextSpaced ==
    \/ Quiet /\ TriggerStarts
    \/ TriggerSteps
    \/ Crawler
    \/ Notifier
    \/ ExpireRecent

SpecSpaced == Init /\ [][NextSpaced]_vars

----------------------------------------------------------------------------
(* The window and keyword computations on enumerated inputs *)

InputPeriods == {0 - 1, 0, 1, DefaultCrawlPeriod}
InputKeywords == {<<>>, <<"llm">>, <<"llm", "retrieval">>}
InputConfigs ==
    { Config(p, kws) : p \in InputPeriods, kws \in InputKeywords }
    \cup { [Config(0, kws) EXCEPT !.crawl_period = <<>>] : kws \in InputKeywords }
    \cup { AbsentConfig }
InputInstants == {StartTime - HourTicks, StartTime - 1, StartTime}
InputTimestamps ==
    {NoTimestamp} \cup { StrfCompact(t) : t \in InputInstants }
                  \cup { IsoFormat(t) : t \in InputInstants }

\* A cycle whose trigger has enqueued both tasks.
EnqueuedCycle(t) ==
    [kind |-> "scheduled_crawl", pc |-> "done", t |-> t, cfg |-> NoConfig, i |-> 0,
     before |-> NoTimestamp, alone |-> FALSE,
     crawl |-> Queued(NoCrawl), notif |-> Queued(NoNotif)]

\* One cycle's tasks are about to start; other triggers have left any of
\* the values they write in the store.
InitInputs ==
    /\ now \in {StartTime, StartTime + 1}
    /\ nticks = 0
    /\ feed = SmallFeed
    /\ r_config \in InputConfigs
    /\ r_keywords \in SUBSET {"llm", "rag"}
    /\ r_ts \in InputTimestamps
    /\ r_count = 0
    /\ r_recent = <<>>
    /\ index = {}
    /\ first_written = NoFirst
    /\ cycles = <<EnqueuedCycle(now)>>
    /\ Healthy

NextInputs ==
    \E c \in CycleIds :
       \/ crawl_load_config(c)
       \/ \E d \in ClockSteps : crawl_window(c, d)
       \/ notif_load_config(c)
       \/ notif_keywords(c)
       \/ \E d \in ClockSteps : notif_window(c, d)

SpecInputs == InitInputs /\ [][NextInputs]_vars

----------------------------------------------------------------------------
(* Two ingestion runs, of two workers or of a task and its retry *)

OlderDoc == [id |-> "a", title |-> <<"z">>]

InitIngest ==
    /\ now = StartTime
    /\ nticks = 0
    /\ feed = FeedAnswers \cup FailingFeeds
    /\ r_config = Config(1, <<"llm">>)
    /\ r_keywords = {"llm"}
    /\ r_ts = StrfCompact(StartTime)
    /\ r_count = 0
    /\ r_recent = <<>>
    /\ \/ index = {} /\ first_written = NoFirst
       \/ index = {OlderDoc} /\ first_written = [NoFirst EXCEPT !["a"] = <<OlderDoc>>]
    /\ cycles = <<EnqueuedCycle(StartTime), EnqueuedCycle(StartTime)>>
    /\ Healthy

NextIngest ==
    \E c \in CycleIds :
       \/ crawl_load_config(c)
       \/ \E d \in ClockSteps : crawl_window(c, d)
       \/ crawl_fetch(c)
       \/ crawl_fetch_fails(c)
       \/ crawl_store(c)
       \/ crawl_count(c)

SpecIngest == InitIngest /\ [][NextIngest]_vars

----------------------------------------------------------------------------
(* One send_notifications task, with the index, the reranker and the
   messenger answering in every way they can *)

HitIds == <<"A", "B", "C", "D", "E", "F", "G", "H", "I", "J", "K">>
RawScores == {4000, 4996, 5000, 9000}

\* The first n documents, with every score each can get.
Scorings(n) == { [i \in 1..n |-> Hit(HitIds[i], f[i])] : f \in [1..n -> RawScores] }
RerankInputs == UNION { Scorings(n) : n \in 0..MaxHits }

\* One document more than a message lists.
Eleven == [i \in 1..(DispatchTopK + 1) |-> Hit(HitIds[i], 9000)]

\* The task of one cycle is in the notifier queue; cfg is the stored
\* configuration and the timestamp is the one its trigger wrote.
OneNotification(cfg) ==
    /\ now = StartTime
    /\ nticks = 0
    /\ feed = SmallFeed
    /\ r_config = cfg
    /\ r_keywords = Range(cfg.keywords)
    /\ r_ts = StrfCompact(StartTime)
    /\ r_count = 0
    /\ r_recent = <<>>
    /\ index = {}
    /\ first_written = NoFirst
    /\ cycles = <<EnqueuedCycle(StartTime)>>
    /\ sent = {}
    /\ beat = Crontab(cfg.minute, NewHour(cfg.hour, cfg.time_diff))

RerankConfigs ==
    { [Config(24, <<"llm">>) EXCEPT !.reranker = <<"cross-encoder">>, !.template = t] :
         t \in {"default_text", "custom"} }

InitRerank ==
    /\ \E cfg \in RerankConfigs : OneNotification(cfg)
    /\ found = [kw \in Keywords |-> { Answer(hits) : hits \in RerankInputs }]
    /\ kakao = {"200"}
    /\ scorer = {"ok"}

SpecRerank == InitRerank /\ [][Notifier]_vars

NotifyConfigs ==
    { [Config(24, <<"llm", "rag">>) EXCEPT !.reranker = r, !.template = t] :
         r \in {<<>>, <<"cross-encoder">>}, t \in {"default_text", "custom"} }
    \cup { [Config(24, <<"llm", "rag">>) EXCEPT !.messenger = "slack"] }

NotifyFound ==
    [kw \in Keywords |->
       IF kw = "llm"
       THEN { Answer(<<>>), Answer(<<Hit("A", 9000)>>), Answer(<<Hit("A", 4000)>>),
              Answer(Eleven), SearchRaises }
       ELSE IF kw = "rag"
       THEN { Answer(<<>>), Answer(<<Hit("B", 9000)>>), SearchRaises }
       ELSE { Answer(<<>>) }]

InitNotify ==
    /\ \E cfg \in NotifyConfigs : OneNotification(cfg)
    /\ found = NotifyFound
    /\ kakao = PostOutcomes
    /\ scorer = ScorerOutcomes

SpecNotify == InitNotify /\ [][Notifier]_vars

\* The same index, without the answer that is longer than a message.
ShortFound ==
    [kw \in Keywords |-> { a \in NotifyFound[kw] : Len(a.hits) <= 1 }]

InitNotifyShort ==
    /\ \E cfg \in NotifyConfigs : OneNotification(cfg)
    /\ found = ShortFound
    /\ kakao = PostOutcomes
    /\ scorer = ScorerOutcomes

\* The notifier worker runs a task as long as the task has a step to take.
SpecNotifyFair == InitNotifyShort /\ [][Notifier]_vars /\ WF_vars(Notifier)

----------------------------------------------------------------------------
(* The scheduler's initialization, for every schedule and time_diff *)

ScheduleHours == 0..(HoursPerDay - 1)
TimeDiffs == (0 - MaxDiff)..MaxDiff
ScheduleConfigs ==
    { [Config(24, <<>>) EXCEPT !.hour = h, !.time_diff = td] :
         h \in ScheduleHours, td \in TimeDiffs }

\* config.json is stored under "config"; schedule_workflow is about to run.
InitSchedule ==
    /\ now = StartTime
    /\ nticks = 0
    /\ feed = SmallFeed
    /\ r_config \in ScheduleConfigs
    /\ r_keywords = {}
    /\ r_ts = NoTimestamp
    /\ r_count = 0
    /\ r_recent = <<>>
    /\ index = {}
    /\ first_written = NoFirst
    /\ cycles = <<>>
    /\ found = SmallFound
    /\ kakao = {"200"}
    /\ scorer = {"ok"}
    /\ sent = {}
    /\ beat = NoBeat

NextSchedule == schedule_workflow

SpecSchedule == InitSchedule /\ [][NextSchedule]_vars

----------------------------------------------------------------------------
(* Properties *)

\* The instant a stored timestamp text denotes.
Instant(s) == s.sec * TicksPerSec + s.sub

CrawlFinished(c) == cycles[c].crawl.pc \in {"done", "failed"}
CrawlDone(c) == cycles[c].crawl.pc = "done"

\* The task of cycle c takes the step that ends it successfully.
CrawlCompletes(c) == cycles[c].crawl.pc # "done" /\ cycles'[c].crawl.pc = "done"

\* C1: in every cycle, no index search of send_notification is issued
\* before that cycle's crawl_and_store has finished, with success or with a
\* failure.
C1_SearchAfterCrawl ==
    \A c \in CycleIds : cycles[c].notif.k > 0 => CrawlFinished(c)

\* C2: after a cycle whose ingestion fetch failed, so that crawl_and_store
\* did not complete, the stored last_crawl_timestamp is the value it had
\* before the cycle was triggered (stated for a cycle that ran alone).
C2_FailedCycleKeepsTimestamp ==
    (Len(cycles) = 1 /\ cycles[1].crawl.err = "FetchError") => r_ts = cycles[1].before

\* C3: when the crawl_and_store of a cycle completes, the stored
\* last_crawl_timestamp denotes the window end that crawl_and_store computed
\* in that cycle, also when two triggers overlap.
C3_TimestampIsWindowEnd ==
    [][\A c \in CycleIds :
          CrawlCompletes(c) =>
             /\ r_ts'.fmt # "absent"
             /\ Instant(r_ts') = cycles'[c].crawl.win.end]_vars

\* C4: the second named by last_crawl_timestamp never decreases, whatever
\* the interleaving of the triggers.
C4_TimestampNeverDecreases ==
    [][r_ts'.sec >= r_ts.sec]_vars

\* Two successful cycles, one after the other, with no successful cycle
\* between them.
ConsecutiveSuccessful(c1, c2) ==
    /\ c1 < c2
    /\ CrawlDone(c1)
    /\ CrawlDone(c2)
    /\ \A c \in CycleIds : (c1 < c /\ c < c2) => cycles[c].crawl.pc = "failed"
    /\ \A c \in CycleIds : (c1 < c /\ c <= c2) => cycles[c].alone

\* C5, as claimed: the window of the later of two consecutive successful
\* cycles starts exactly where the window of the earlier one ended.
C5_WindowsAbut ==
    \A c1, c2 \in CycleIds :
       ConsecutiveSuccessful(c1, c2) =>
          cycles[c2].crawl.win.start = cycles[c1].crawl.win.end

\* C5, amended: the window of the later of two consecutive successful cycles
\* starts crawl_period hours before its own end; it starts where the window
\* of the earlier one ended exactly when the two ends are crawl_period hours
\* apart.
C5_WindowsAbutWhenSpaced ==
    \A c1, c2 \in CycleIds :
       ConsecutiveSuccessful(c1, c2) =>
          LET w1 == cycles[c1].crawl.win
              w2 == cycles[c2].crawl.win
              p == cycles[c2].crawl.config.crawl_period[1]
          IN  /\ w2.start = w2.end - p * SecPerHour * TicksPerSec
              /\ (w2.start = w1.end) <=> (w2.end - w1.end = p * SecPerHour * TicksPerSec)

\* Two consecutive successful cycles whose windows abut, one hour apart.
C5_Witness ==
    \E c1, c2 \in CycleIds :
       /\ ConsecutiveSuccessful(c1, c2)
       /\ cycles[c2].crawl.win.start = cycles[c1].crawl.win.end
       /\ cycles[c2].crawl.win.end > cycles[c1].crawl.win.end


\* The tasks that have computed their window.
CrawlHasWindow(c) == cycles[c].crawl.pc \in {"fetch", "store", "count", "done"}
NotifHasWindow(c) == cycles[c].notif.pc \in {"search", "dispatch", "done"}

\* A stored text in the format YYYYMMDDHHMMSS and the instant it names.
Parsable(ts) == ts.fmt = "compact"
Named(ts) == ts.sec * TicksPerSec

Hours(p) == p * SecPerHour * TicksPerSec

\* The crawl_period a task works with; send_notification falls back to 24.
CrawlPeriodOf(task) == task.config.crawl_period[1]
NotifPeriodOf(task) ==
    IF task.config.crawl_period = <<>> THEN 24 ELSE task.config.crawl_period[1]

\* C6, as claimed: for every parsable stored timestamp and every integer
\* crawl_period, the window of crawl_and_store and of send_notification has
\* end = the stored timestamp, start = end - crawl_period hours, start <= end.
C6_WindowFromStored ==
    \A c \in CycleIds :
       /\ (CrawlHasWindow(c) /\ Parsable(cycles[c].crawl.ts)) =>
             LET w == cycles[c].crawl.win
             IN  /\ w.end = Named(cycles[c].crawl.ts)
                 /\ w.start = w.end - Hours(CrawlPeriodOf(cycles[c].crawl))
                 /\ w.start <= w.end
       /\ (NotifHasWindow(c) /\ Parsable(cycles[c].notif.ts)) =>
             LET w == cycles[c].notif.win
             IN  /\ w.end = Named(cycles[c].notif.ts)
                 /\ w.start = w.end - Hours(NotifPeriodOf(cycles[c].notif))
                 /\ w.start <= w.end

\* C6, amended: for every parsable stored timestamp and every integer
\* crawl_period, both windows have end = the stored timestamp and
\* start = end - crawl_period hours; start <= end exactly when
\* crawl_period >= 0, and start > end for a negative crawl_period.
C6_WindowFromStoredNonNegative ==
    \A c \in CycleIds :
       /\ (CrawlHasWindow(c) /\ Parsable(cycles[c].crawl.ts)) =>
             LET w == cycles[c].crawl.win
                 p == CrawlPeriodOf(cycles[c].crawl)
             IN  /\ w.end = Named(cycles[c].crawl.ts)
                 /\ w.start = w.end - Hours(p)
                 /\ (w.start <= w.end) <=> (p >= 0)
       /\ (NotifHasWindow(c) /\ Parsable(cycles[c].notif.ts)) =>
             LET w == cycles[c].notif.win
                 p == NotifPeriodOf(cycles[c].notif)
             IN  /\ w.end = Named(cycles[c].notif.ts)
                 /\ w.start = w.end - Hours(p)
                 /\ (w.start <= w.end) <=> (p >= 0)

\* Both tasks of a cycle have computed their window from a parsable stored
\* timestamp, with a crawl_period of one hour.
C6_Witness ==
    \E c \in CycleIds :
       /\ CrawlHasWindow(c) /\ Parsable(cycles[c].crawl.ts)
       /\ NotifHasWindow(c) /\ Parsable(cycles[c].notif.ts)
       /\ cycles[c].crawl.config.crawl_period = <<1>>
       /\ cycles[c].notif.config.crawl_period = <<1>>
       /\ cycles[c].crawl.win.start < cycles[c].crawl.win.end
       /\ cycles[c].notif.win.start < cycles[c].notif.win.end

\* C7: when last_crawl_timestamp is absent or does not parse, crawl_and_store
\* (given a crawl_period) and send_notification go on without raising and
\* use the window end = the clock's reading, start = end - crawl_period hours.
C7_BootstrapWindow ==
    [][\A c \in CycleIds :
          /\ ( /\ cycles[c].crawl.pc = "window"
               /\ cycles'[c].crawl.pc # "window"
               /\ ~Parsable(r_ts)
               /\ cycles[c].crawl.config.crawl_period # <<>> ) =>
                   /\ cycles'[c].crawl.pc = "fetch"
                   /\ cycles'[c].crawl.win.end = now'
                   /\ cycles'[c].crawl.win.start =
                         now' - Hours(CrawlPeriodOf(cycles[c].crawl))
          /\ ( /\ cycles[c].notif.pc = "window"
               /\ cycles'[c].notif.pc # "window"
               /\ ~Parsable(r_ts) ) =>
                   /\ cycles'[c].notif.pc \in {"search", "dispatch"}
                   /\ cycles'[c].notif.win.end = now'
                   /\ cycles'[c].notif.win.start =
                         now' - Hours(NotifPeriodOf(cycles[c].notif))]_vars

\* The key is absent, crawl_period is 24: both tasks have gone on with a
\* window of the 24 hours before the clock's reading.
C7_Witness ==
    \E c \in CycleIds :
       /\ cycles[c].crawl.pc = "fetch" /\ cycles[c].crawl.ts.fmt = "absent"
       /\ NotifHasWindow(c) /\ cycles[c].notif.ts.fmt = "absent"
       /\ cycles[c].crawl.config.crawl_period = <<24>>
       /\ cycles[c].notif.config.crawl_period = <<24>>
       /\ cycles[c].crawl.win.end >= StartTime
       /\ cycles[c].crawl.win.start = cycles[c].crawl.win.end - Hours(24)
       /\ cycles[c].notif.win.end >= StartTime
       /\ cycles[c].notif.win.start = cycles[c].notif.win.end - Hours(24)

\* crawl_papers of cycle c takes one pass of the store loop.
StoreStep(c) ==
    /\ cycles[c].crawl.pc = "store"
    /\ cycles'[c].crawl # cycles[c].crawl

IdsOf(idx) == { d.id : d \in idx }

\* C8: storing an entry whose identifier is in the index leaves the index,
\* and so the stored document and the number of identifiers, unchanged; a
\* batch that has been ingested can be ingested again without changing the
\* index.
C8_ReingestIsNoOp ==
    [][\A c \in CycleIds :
          /\ ( /\ StoreStep(c)
               /\ cycles[c].crawl.papers[cycles[c].crawl.i].id \in IdsOf(index) ) =>
                   index' = index
          /\ cycles'[c].crawl.pc \in {"count", "done"} =>
                   StorePapers(index', cycles'[c].crawl.papers) = index']_vars

\* A run has stored an entry whose identifier was in the index with another
\* document, which is still the one the index holds.
C8_Witness ==
    \E c \in CycleIds :
       \E j \in 1..Len(cycles[c].crawl.papers) :
          /\ j < cycles[c].crawl.i
          /\ BuildDoc(cycles[c].crawl.papers[j]) \notin index
          /\ cycles[c].crawl.papers[j].id \in IdsOf(index)

\* C9: under every interleaving of two ingestion runs, neither run fails on
\* a document the other one wrote, and the index holds one document per
\* identifier, the first one written for it.
C9_ConcurrentIngestion ==
    /\ \A c \in CycleIds : cycles[c].crawl.err # "ConflictError"
    /\ \A d1, d2 \in index : d1.id = d2.id => d1 = d2
    /\ \A id \in Ids : first_written[id] # <<>> => first_written[id][1] \in index
    /\ \A d \in index : first_written[d.id] = <<d>>

\* Both runs are over and had an identifier in common, with two documents.
C9_Witness ==
    /\ Len(cycles) = 2
    /\ CrawlDone(1)
    /\ CrawlDone(2)
    /\ \E j1 \in DOMAIN cycles[1].crawl.papers, j2 \in DOMAIN cycles[2].crawl.papers :
          /\ cycles[1].crawl.papers[j1].id = cycles[2].crawl.papers[j2].id
          /\ BuildDoc(cycles[1].crawl.papers[j1]) # BuildDoc(cycles[2].crawl.papers[j2])

\* C10: get_search_keywords returns the stored set when it has members and
\* the configured keywords otherwise, never a merge of the two.
C10_ActiveKeywords ==
    [][\A c \in CycleIds :
          (cycles[c].notif.pc = "keywords" /\ cycles'[c].notif.pc # "keywords") =>
             LET kws == cycles'[c].notif.keywords
             IN  IF r_keywords # {}
                 THEN Range(kws) = r_keywords /\ Len(kws) = Cardinality(r_keywords)
                 ELSE kws = cycles[c].notif.config.keywords]_vars

\* The stored set is empty, the configured keywords are llm and retrieval,
\* and these are the keywords send_notification works with.
C10_Witness ==
    \E c \in CycleIds :
       /\ cycles[c].notif.pc = "window"
       /\ r_keywords = {}
       /\ cycles[c].notif.config.keywords = <<"llm", "retrieval">>
       /\ cycles[c].notif.keywords = <<"llm", "retrieval">>

\* The messages posted after reranking, and what the reranker was given for
\* each: the hits of the keyword.
Reranked == { m \in sent : cycles[m.cycle].notif.config.reranker # <<>> }
GivenTo(m) == cycles[m.cycle].notif.hits[m.j]

\* A score in 1/10000 to the nearest thousandth, no score of the inputs
\* being half way.
Nearest(raw) == (raw + 5) \div 10

\* C11: rerank_papers returns exactly the documents given to it whose score,
\* rounded to 3 decimals, is >= 0.5: none below is returned and none at or
\* above is dropped, and each one once.
C11_RerankKeepsHalfAndAbove ==
    \A m \in Reranked :
       /\ \A i \in DOMAIN m.ranked :
             /\ m.ranked[i].score # <<>>
             /\ m.ranked[i].score[1] >= 500
             /\ m.ranked[i].score[1] = Nearest(m.ranked[i].raw)
       /\ \A i \in DOMAIN GivenTo(m) :
             Nearest(GivenTo(m)[i].raw) >= 500 <=>
                \E h \in DOMAIN m.ranked : m.ranked[h].id = GivenTo(m)[i].id
       /\ \A h1, h2 \in DOMAIN m.ranked :
             m.ranked[h1].id = m.ranked[h2].id => h1 = h2
       /\ \A h \in DOMAIN m.ranked :
             \E i \in DOMAIN GivenTo(m) : GivenTo(m)[i] = Hit(m.ranked[h].id, m.ranked[h].raw)

\* A document whose score 0.4996 rounds to 0.5 was kept, one with score
\* exactly 0.5 was kept, and one with score 0.4 was dropped.
C11_Witness ==
    \E m \in Reranked :
       /\ \E h \in DOMAIN m.ranked : m.ranked[h].raw = 4996
       /\ \E h \in DOMAIN m.ranked : m.ranked[h].raw = 5000
       /\ \E i \in DOMAIN GivenTo(m) :
             /\ GivenTo(m)[i].raw = 4000
             /\ \A h \in DOMAIN m.ranked : m.ranked[h].id # GivenTo(m)[i].id

\* Where a document stood in what the reranker was given.
PlaceIn(hits, id) == CHOOSE i \in DOMAIN hits : hits[i].id = id

\* C12: the output of rerank_papers is in descending order of score, and two
\* documents of equal score are in the order they were given in.
C12_SortedStable ==
    \A m \in Reranked :
       \A h1, h2 \in DOMAIN m.ranked :
          h1 < h2 =>
             /\ m.ranked[h1].score[1] >= m.ranked[h2].score[1]
             /\ m.ranked[h1].score[1] = m.ranked[h2].score[1] =>
                   PlaceIn(GivenTo(m), m.ranked[h1].id) < PlaceIn(GivenTo(m), m.ranked[h2].id)

\* Scores 0.9, 0.4, 0.5, 0.5 for A, B, C, D gave A, C, D.
C12_Witness ==
    \E m \in Reranked :
       /\ GivenTo(m) = <<Hit("A", 9000), Hit("B", 4000), Hit("C", 5000), Hit("D", 5000)>>
       /\ [h \in DOMAIN m.ranked |-> m.ranked[h].id] = <<"A", "C", "D">>
       /\ [h \in DOMAIN m.ranked |-> m.ranked[h].score] = <<<<900>>, <<500>>, <<500>>>>

\* The titles a payload lists, in order.
Titles(payload) == [i \in DOMAIN payload.listed |-> payload.listed[i].title]
IdsIn(papers) == [i \in DOMAIN papers |-> papers[i].id]

\* C13: the payload of a keyword describes the first top_k entries of the ranked
\* list, in order, and nothing beyond them; a count the payload reports is
\* the number of the entries it lists.
C13_PayloadOfTruncatedList ==
    \A m \in sent :
       m.ranked # <<>> =>
          /\ Len(m.payload.listed) <= DispatchTopK
          /\ Titles(m.payload) = SubSeq(IdsIn(m.ranked), 1, Len(m.payload.listed))
          /\ Len(m.payload.listed) = IF Len(m.ranked) < DispatchTopK THEN Len(m.ranked) ELSE DispatchTopK
          /\ m.payload.n_papers # <<>> => m.payload.n_papers[1] = Len(m.payload.listed)

\* What a receiver sees of a payload without reading its text: the endpoint,
\* the keys of the form data and the object_type.
Shape(payload) == <<payload.url, payload.keys, payload.object_type>>

\* C14: the payload sent for an empty ranked list differs in shape from the
\* payload sent for a ranked list with entries, whatever the template.
C14_EmptyDistinctByShape ==
    \A m1, m2 \in sent :
       (m1.ranked = <<>> /\ m2.ranked # <<>>) => Shape(m1.payload) # Shape(m2.payload)

\* The task of cycle c has ended with an exception while it handled the
\* keyword of message m.
FailedAt(c, m) ==
    /\ m.cycle = c
    /\ cycles[c].notif.pc = "failed"
    /\ cycles[c].notif.j + 1 = m.j

\* C15: after a response without success for a keyword no exception leaves
\* send_notification: the task goes on with the keywords that follow.
C15_NonSuccessIsLogged ==
    \A c \in CycleIds :
       \A m \in sent : m.response # "200" => ~FailedAt(c, m)

\* C16: when the fetch of one category fails, fetch_arxiv_papers still
\* returns, with the entries of the other categories, and crawl_and_store
\* goes on.
C16_CategoryFailureIsolated ==
    \A c \in CycleIds :
       cycles[c].crawl.cat > 0 =>
          /\ cycles[c].crawl.pc # "failed"
          /\ cycles[c].crawl.err # "FetchError"

\* C17: for every schedule hour in 0..23 and every time_diff, the recurring
\* trigger is registered with the hour (schedule hour - time_diff) mod 24.
C17_TriggerHourMod24 ==
    (beat.set \/ beat.raised) =>
       /\ beat.set
       /\ beat.hour \in 0..23
       /\ beat.hour = (r_config.hour - r_config.time_diff) % 24

\* The task of cycle c was ended by an error raised by the index search or
\* by the post of a message, while handling a keyword.
TransientErrors == {"TransportError", "ConnectionError"}
AbortedByTransient(c) ==
    /\ cycles[c].notif.pc = "failed"
    /\ cycles[c].notif.k > 0
    /\ cycles[c].notif.err \in TransientErrors

\* C18: an error raised by the index search or by the messenger call for one
\* keyword does not abort the task: the other keywords are searched and
\* dispatched.
C18_TransientConfined ==
    \A c \in CycleIds : ~AbortedByTransient(c)

\* C19: a task whose post of a message does not return still goes on: the
\* wait ends and the task proceeds to the next keyword or to its end.
C19_StuckCallEnds ==
    [](Len(cycles) = 1 =>
         (cycles[1].notif.pc = "posting" => <>(cycles[1].notif.pc # "posting")))

\* C20: when the reranker cannot be loaded or fails while scoring,
\* send_notification goes on and dispatches the documents as retrieved.
RerankerErrors == {"OSError", "RuntimeError"}
C20_RerankerFallback ==
    \A c \in CycleIds :
       cycles[c].notif.config.reranker # <<>> =>
          ~(cycles[c].notif.pc = "failed" /\ cycles[c].notif.err \in RerankerErrors)

\* The stored configuration is absent, or lacks crawl_period.
ConfigLacks == ~r_config.present \/ r_config.crawl_period = <<>>

\* C21: with the stored configuration absent or lacking a key the cycle
\* needs, crawl_and_store and send_notification go on with a default and
\* neither ends with an exception.
C21_ConfigDegrades ==
    ConfigLacks =>
       \A c \in CycleIds : /\ cycles[c].crawl.pc # "failed"
                           /\ cycles[c].notif.pc # "failed"

\* C22: whatever an entry point has written to last_crawl_timestamp is a
\* text of the format YYYYMMDDHHMMSS, which strptime accepts.
C22_TimestampFormat ==
    r_ts.fmt # "absent" => (r_ts.fmt = "compact" /\ Strptime(r_ts).ok)

\* The send_notifications task of cycle c takes a step.
NotifierStep(c) ==
    /\ cycles[c].notif.pc # "none"
    /\ cycles'[c].notif # cycles[c].notif

\* C23: no step of send_notification, whatever the search, the reranker and
\* the messenger answer, changes last_crawl_timestamp, last_crawl_paper_count,
\* the stored keyword set or the index.
C23_NotifierFrame ==
    [][\A c \in CycleIds :
          NotifierStep(c) => UNCHANGED <<r_ts, r_count, r_keywords, index>>]_vars

\* A task was ended by the answer to its post, after a search that found
\* documents, and the store is as the trigger left it.
C23_Witness ==
    /\ \E m \in sent : m.response = "502" /\ FailedAt(m.cycle, m)
    /\ r_ts = StrfCompact(StartTime)
    /\ r_keywords = {"llm", "rag"}

\* The crawl_papers task of cycle c takes a step of crawl_and_store.
CrawlStep(c) ==
    /\ cycles[c].crawl.pc # "none"
    /\ cycles'[c].crawl # cycles[c].crawl

\* A trigger task comes to the end of store_last_execution_time.
TimestampStored ==
    \E c \in CycleIds : cycles[c].pc = "set" /\ cycles'[c].pc = "done"

Messaged(c, j) == \E m \in sent : m.cycle = c /\ m.j = j

\* C25: every message is for a keyword whose search found a document, and
\* every keyword the loop is through with has a message exactly when its
\* search found a document, whether or not the reranker kept any.
C25_MessageIffHits ==
    \A c \in CycleIds :
       /\ \A m \in sent : m.cycle = c => cycles[c].notif.hits[m.j] # <<>>
       /\ \A j \in 1..cycles[c].notif.j :
             Messaged(c, j) <=> cycles[c].notif.hits[j] # <<>>

\* A task has returned: one keyword found nothing and has no message, the
\* other found a document the reranker dropped and has the notice.
C25_Witness ==
    \E c \in CycleIds :
       /\ cycles[c].notif.pc = "done"
       /\ cycles[c].notif.j = 2
       /\ \E j \in 1..2 : cycles[c].notif.hits[j] = <<>> /\ ~Messaged(c, j)
       /\ \E m \in sent : /\ m.cycle = c
                          /\ cycles[c].notif.hits[m.j] # <<>>
                          /\ m.ranked = <<>>
                          /\ m.payload.notice

\* The keyword sets store_keywords_in_redis leaves when it has ended.
CompleteSets == { Range(cfg.keywords) : cfg \in Configs }

\* The send_notifications task of cycle c has got its keywords.
HasKeywords(c) ==
    cycles[c].notif.pc \in {"window", "search", "dispatch", "posting", "done"}

\* C26: the keywords get_search_keywords returns are a complete set, the one
\* before a refresh or the one after it, never a part of one.
C26_NoPartialKeywords ==
    \A c \in CycleIds :
       HasKeywords(c) => Range(cycles[c].notif.keywords) \in CompleteSets

\* C27: in one cycle send_notification searches the window crawl_and_store
\* ingested, also when another trigger has fired between the two.
C27_SameWindow ==
    \A c \in CycleIds :
       (CrawlHasWindow(c) /\ NotifHasWindow(c)) =>
          cycles[c].notif.win = cycles[c].crawl.win

====
